---- MODULE Spec2Model ----
(***************************************************************************)
(* Model of cmQtAutoRcc (Source/cmQtAutoRcc.cxx): the AUTORCC job that     *)
(* decides whether the rcc output of one .qrc file is stale, regenerates   *)
(* it on demand, publishes the multi-config wrapper and keeps the settings *)
(* record, all under an exclusive lock on a dedicated lock file.           *)
(*                                                                         *)
(* One invocation (one cmQtAutoRcc object in one process) is a process p.  *)
(* Each member function of the class is one action of p; pc[p] is the      *)
(* position of p inside cmQtAutoRcc::Process.  The file system is shared.  *)
(***************************************************************************)
EXTENDS Integers, Sequences, FiniteSets, TLC

\* ------------------------------------------------------------------ bounds
\* Number of invocations that may run concurrently (SpecConc).
NumProcs == 2
\* Largest value of the file system clock; modification times are 0..MaxTime.
MaxTime == 1

Procs == 1..NumProcs
\* The sequential specification Spec runs one invocation at a time.
SeqProcs == {1}

\* Resource files a .qrc file can refer to.
ResNames == {"r1", "r2"}
\* Values of ARCC_OPTIONS.
OptionSet == {"o1", "o2"}
\* Values of ARCC_INPUTS: empty (to be listed by rcc --list) or explicit.
SuppliedInputs == {<< >>, <<"r1", "r2">>}
\* Lists the rcc lister can print for the .qrc file.
ListerOutputs == {<< >>, <<"r1">>, <<"r2", "r1">>}

VARIABLES
  clock,            \* file system time: the mtime a write or touch stamps
  settingsFile,     \* SettingsFile_ on disk: [exists, content]
  lockFile,         \* LockFile_ exists on disk
  qrcFile,          \* QrcFile_ on disk: [exists, time]
  rccFile,          \* RccFileOutput_ on disk: [exists, time, content]
  rccExeTime,       \* mtime of RccExecutable_
  infoFileTime,     \* InfoFileTime(): mtime of the info file
  resFiles,         \* resource files on disk: name -> [exists, time]
  wrapperFile,      \* RccFilePublic_ on disk (multi-config): [exists, time, content]
  MultiConfig_,     \* ARCC_MULTI_CONFIG
  pc,               \* position of each invocation
  Options_,         \* per invocation members, named as in the class
  Inputs_,
  SettingsString_,
  SettingsChanged_,
  LockFileLock_,    \* TRUE while the member cmFileLock holds the lock
  QrcFileTime_,
  RccFileTime_,
  RccExecutableTime_,
  BuildFileChanged_,
  generate,         \* local of Process()
  result,           \* return value of Process(): "none", "true", "false"
  Error,            \* the error Log().Error*() reported in this run
  calls,            \* per invocation: what this run did so far (see NoCalls)
  pending           \* history kept by SpecRerun: the digest of the last run that
                    \* cleared or failed to write the settings file, or that
                    \* succeeded (why = "off": no history kept)

fsVars == <<settingsFile, lockFile, qrcFile, rccFile, rccExeTime,
            infoFileTime, resFiles, wrapperFile, MultiConfig_>>
jobVars == <<Options_, Inputs_, SettingsString_, SettingsChanged_,
             LockFileLock_, QrcFileTime_, RccFileTime_, RccExecutableTime_,
             BuildFileChanged_, generate, result, Error, calls>>
vars == <<clock, fsVars, pc, jobVars, pending>>

\* ------------------------------------------------------------ file system
NoFile == [exists |-> FALSE, time |-> 0]
File(t) == [exists |-> TRUE, time |-> t]
NoRcc == [exists |-> FALSE, time |-> 0, content |-> "none"]
NoWrapper == [exists |-> FALSE, time |-> 0, content |-> "none"]

\* cmFileTime::Older: strictly older.
Older(a, b) == a < b

\* Mutant: the list of dependent inputs is left out of the settings string.
HashString_NoInputs(options, inputs) == <<options>>

\* cmCryptoHash::HashString over the settings string composed in
\* SettingsFileRead.  The executable, list options, .qrc path, checksum and
\* output name are fixed here; the digest varies with Options_ and Inputs_.
\* The hash is modelled as collision free: the digest is the pair of the two.
\* The empty sequence stands for the empty string (no digest).
HashString(options, inputs) == <<options>> \o inputs

Digests == {HashString(o, i) : o \in OptionSet, i \in SuppliedInputs}

\* The settings file content is a sequence of lines "key:value\n".
SettingsLine(key, value) == [key |-> key, value |-> value]

\* Line 254: the record written back, "rcc:" SettingsString_ "\n".
SettingsRecord(digest) == << SettingsLine("rcc", digest) >>

\* Mutant: the old settings are not cleared.
ClearedSettings_KeepOld(old, digest) == old

\* Mutant: the new record is written as soon as the change is seen.
ClearedSettings_NewRecord(old, digest) == SettingsRecord(digest)

\* Line 232: the content the settings file is cleared to.
ClearedSettings(old, digest) == << >>

\* cmQtAutoGenerator::SettingsFind: the value of the first line with the key,
\* the empty string when there is none.
SettingsFind(content, key) ==
  IF \E i \in 1..Len(content) : content[i].key = key
    THEN LET i == CHOOSE j \in 1..Len(content) :
                    /\ content[j].key = key
                    /\ \A k \in 1..(j - 1) : content[k].key # key
         IN content[i].value
    ELSE << >>

\* The wrapper content computed in GenerateWrapper (lines 447-450).
WrapperContent == "include-multi-config-output"

\* What an invocation did in its run so far.  createdSettings and
\* createdLock say which files the run created while it had not taken the
\* lock; they are dropped when it takes the lock.
NoCalls == [rcc |-> 0, lister |-> 0, settingsWritten |-> FALSE,
            rccTouched |-> FALSE, mismatch |-> FALSE, locked |-> FALSE,
            upToDate |-> FALSE, expect |-> "none", rccAtLoad |-> NoRcc,
            wrapper |-> "none", wrapperRead |-> FALSE, supplied |-> << >>,
            settingsRead |-> FALSE, createdSettings |-> FALSE,
            createdLock |-> FALSE, prevLister |-> 0, prevInputs |-> << >>]

NoPending == [digest |-> << >>, why |-> "none", lister |-> 0, inputs |-> << >>]
NoHistory == [digest |-> << >>, why |-> "off", lister |-> 0, inputs |-> << >>]
Remember(p, why) ==
  IF pending.why = "off" THEN pending
  ELSE [digest |-> SettingsString_[p], why |-> why,
        lister |-> calls[p].lister, inputs |-> Inputs_[p]]

\* The history after a run has read the settings file: what is known of a
\* run that succeeded holds for the run that follows it only.
Consumed == IF pending.why = "succeeded" THEN NoPending ELSE pending

Set(f, p, v) == [f EXCEPT ![p] = v]

\* Mutant: the job goes on without taking the lock.
AcquiredLock_NoLock(p) == LockFileLock_

\* Lines 213-214: the lock member after LockFileLock_.Lock() succeeded.
AcquiredLock(p) == Set(LockFileLock_, p, TRUE)

\* Mutant: the release at the end of SettingsFileWrite is forgotten.
ReleasedLock_Kept(p) == LockFileLock_

\* Lines 265-266: the lock member after LockFileLock_.Release().
ReleasedLock(p) == Set(LockFileLock_, p, FALSE)

\* Mutant: the settings file is written in every run.
MustWriteSettings_Always(p) == TRUE

\* Line 249: only write if any setting changed.
MustWriteSettings(p) == SettingsChanged_[p]
Did(p, field, v) == calls' = [calls EXCEPT ![p][field] = v]

\* A return statement of Process(): "return false" after an error was logged.
ReturnFalse(p, e) ==
  /\ pc' = Set(pc, p, "returned")
  /\ result' = Set(result, p, "false")
  /\ Error' = Set(Error, p, e)

Goto(p, label) ==
  /\ pc' = Set(pc, p, label)
  /\ UNCHANGED <<result, Error>>

\* ------------------------------------------------------------------- Init
\* cmQtAutoRcc::Init: the job reads its configuration from the info file and
\* loads the time of the rcc executable.
InitJob(p, options, inputs) ==
  /\ pc[p] = "idle"
  /\ pc' = Set(pc, p, "SettingsFileRead")
  /\ Options_' = Set(Options_, p, options)
  /\ Inputs_' = Set(Inputs_, p, inputs)
  /\ RccExecutableTime_' = Set(RccExecutableTime_, p, rccExeTime)
  /\ Did(p, "supplied", inputs)
  /\ UNCHANGED <<clock, pending, fsVars, SettingsString_, SettingsChanged_,
                 LockFileLock_, QrcFileTime_, RccFileTime_,
                 BuildFileChanged_, generate, result, Error>>

\* ------------------------------------------------------- SettingsFileRead
\* Mutant: the settings file is created anew in every run.
EnsuredSettingsFile_Truncated(file) == [exists |-> TRUE, content |-> << >>]

\* Lines 193-196: a missing settings file is touched into existence.
EnsuredSettingsFile(file) ==
  IF file.exists THEN file ELSE [exists |-> TRUE, content |-> << >>]

\* Lines 180-211: compose the settings string, make sure the settings file
\* and the lock file exist.  Touch(file, create = true) may fail.
SettingsFileRead_Create(p) ==
  /\ pc[p] = "SettingsFileRead"
  /\ SettingsString_' =
       Set(SettingsString_, p, HashString(Options_[p], Inputs_[p]))
  /\ \E touchSettingsOk \in BOOLEAN, touchLockOk \in BOOLEAN :
       IF ~settingsFile.exists /\ ~touchSettingsOk
         THEN /\ ReturnFalse(p, "SettingsCreate")
              /\ UNCHANGED <<settingsFile, lockFile, calls>>
         ELSE /\ settingsFile' = EnsuredSettingsFile(settingsFile)
              /\ IF ~lockFile /\ ~touchLockOk
                   THEN /\ ReturnFalse(p, "LockCreate")
                        /\ Did(p, "createdSettings", ~settingsFile.exists)
                        /\ UNCHANGED lockFile
                   ELSE /\ lockFile' = TRUE
                        /\ calls' =
                             [calls EXCEPT
                                ![p].createdSettings = ~settingsFile.exists,
                                ![p].createdLock = ~lockFile]
                        /\ Goto(p, "Lock")
  /\ UNCHANGED <<clock, pending, qrcFile, rccFile, rccExeTime, infoFileTime, resFiles,
                 wrapperFile, MultiConfig_, Options_, Inputs_,
                 SettingsChanged_, LockFileLock_, QrcFileTime_, RccFileTime_,
                 RccExecutableTime_, BuildFileChanged_, generate>>

\* Lines 212-219: LockFileLock_.Lock(LockFile_, -1) blocks until no other
\* invocation holds the lock; it can also fail.
SettingsFileRead_Lock(p) ==
  /\ pc[p] = "Lock"
  /\ \/ /\ \A q \in Procs : ~LockFileLock_[q]
        /\ LockFileLock_' = AcquiredLock(p)
        /\ calls' = [calls EXCEPT ![p].locked = TRUE,
                                  ![p].createdSettings = FALSE,
                                  ![p].createdLock = FALSE]
        /\ Goto(p, "ReadOld")
     \/ /\ ReturnFalse(p, "Lock")
        /\ UNCHANGED <<LockFileLock_, calls>>
  /\ UNCHANGED <<clock, pending, fsVars, Options_, Inputs_, SettingsString_,
                 SettingsChanged_, QrcFileTime_, RccFileTime_,
                 RccExecutableTime_, BuildFileChanged_, generate>>

\* Mutant: a settings file without a record counts as unchanged.
SettingsDiffer_UnlessEmpty(p, content) ==
  /\ SettingsFind(content, "rcc") # << >>
  /\ SettingsString_[p] # SettingsFind(content, "rcc")

\* Line 226: the digest of this run differs from the one found in the file.
SettingsDiffer(p, content) ==
  SettingsString_[p] # SettingsFind(content, "rcc")

\* Lines 222-243: read the old settings, compare, clear the file on a change.
SettingsFileRead_Compare(p) ==
  /\ pc[p] = "ReadOld"
  /\ \E readOk \in BOOLEAN, writeOk \in BOOLEAN :
      LET expected == IF pending.digest = SettingsString_[p]
                        THEN pending.why ELSE "none"
          prevLister == IF expected = "succeeded" THEN pending.lister ELSE 0
          prevInputs == IF expected = "succeeded" THEN pending.inputs
                        ELSE << >>
      IN
       IF settingsFile.exists /\ readOk
         THEN LET changed == SettingsDiffer(p, settingsFile.content)
              IN /\ SettingsChanged_' = Set(SettingsChanged_, p, changed)
                 /\ calls' = [calls EXCEPT ![p].mismatch = changed,
                                           ![p].expect = expected,
                                           ![p].settingsRead = TRUE,
                                           ![p].prevLister = prevLister,
                                           ![p].prevInputs = prevInputs]
                 /\ pending' = IF changed THEN Remember(p, "cleared")
                                 ELSE Consumed
                 /\ IF changed
                      THEN IF writeOk
                             THEN /\ settingsFile' =
                                       [exists |-> TRUE,
                                        content |-> ClearedSettings(settingsFile.content,
                                                                   SettingsString_[p])]
                                  /\ Goto(p, "TestQrcRccFiles")
                             ELSE /\ ReturnFalse(p, "SettingsClear")
                                  /\ UNCHANGED settingsFile
                      ELSE /\ Goto(p, "TestQrcRccFiles")
                           /\ UNCHANGED settingsFile
         ELSE /\ SettingsChanged_' = Set(SettingsChanged_, p, TRUE)
              /\ calls' = [calls EXCEPT ![p].expect = expected,
                                        ![p].prevLister = prevLister,
                                        ![p].prevInputs = prevInputs]
              /\ pending' = Consumed
              /\ Goto(p, "TestQrcRccFiles")
              /\ UNCHANGED settingsFile
  /\ UNCHANGED <<clock, lockFile, qrcFile, rccFile, rccExeTime, infoFileTime,
                 resFiles, wrapperFile, MultiConfig_, Options_, Inputs_,
                 SettingsString_, LockFileLock_, QrcFileTime_, RccFileTime_,
                 RccExecutableTime_, BuildFileChanged_, generate>>

\* -------------------------------------------------------- TestQrcRccFiles
\* Mutant: the settings test (lines 292-301) is missing.
QrcRccResult_NoSettings(qrc, rcc, changed, exeTime) ==
  IF ~qrc.exists THEN "error"
  ELSE IF ~rcc.exists THEN "generate"
  ELSE IF Older(rcc.time, qrc.time) THEN "generate"
  ELSE IF Older(rcc.time, exeTime) THEN "generate"
  ELSE "continue"

\* Mutant: an output that is not newer than the .qrc file is regenerated.
QrcRccResult_NotNewer(qrc, rcc, changed, exeTime) ==
  IF ~qrc.exists THEN "error"
  ELSE IF ~rcc.exists THEN "generate"
  ELSE IF changed THEN "generate"
  ELSE IF rcc.time <= qrc.time THEN "generate"
  ELSE IF Older(rcc.time, exeTime) THEN "generate"
  ELSE "continue"

\* Lines 271-326 as a function of what the job sees: "error" (return false),
\* "generate" (generate = true) or "continue" (generate left false).
QrcRccResult(qrc, rcc, changed, exeTime) ==
  IF ~qrc.exists THEN "error"
  ELSE IF ~rcc.exists THEN "generate"
  ELSE IF changed THEN "generate"
  ELSE IF Older(rcc.time, qrc.time) THEN "generate"
  ELSE IF Older(rcc.time, exeTime) THEN "generate"
  ELSE "continue"

TestQrcRccFiles(p) ==
  /\ pc[p] = "TestQrcRccFiles"
  /\ LET r == QrcRccResult(qrcFile, rccFile, SettingsChanged_[p],
                           RccExecutableTime_[p])
     IN /\ QrcFileTime_' =
             IF qrcFile.exists THEN Set(QrcFileTime_, p, qrcFile.time)
             ELSE QrcFileTime_
        /\ RccFileTime_' =
             IF qrcFile.exists /\ rccFile.exists
               THEN Set(RccFileTime_, p, rccFile.time)
               ELSE RccFileTime_
        /\ Did(p, "rccAtLoad", rccFile)
        /\ generate' = Set(generate, p, r = "generate")
        /\ CASE r = "error" -> ReturnFalse(p, "QrcMissing")
             [] r = "generate" -> Goto(p, "GenerateRcc")
             [] OTHER -> Goto(p, "TestResources")
  /\ UNCHANGED <<clock, pending, fsVars, Options_, Inputs_, SettingsString_,
                 SettingsChanged_, LockFileLock_, RccExecutableTime_,
                 BuildFileChanged_>>

\* ---------------------------------------------------------- TestResources
\* Mutant: the loop has no break: it goes on after a newer resource file.
RECURSIVE ScanResources_NoBreak(_, _, _)
ScanResources_NoBreak(list, files, rccTime) ==
  IF list = << >> THEN "none"
  ELSE LET f == files[Head(list)]
           rest == ScanResources_NoBreak(Tail(list), files, rccTime)
       IN IF ~f.exists THEN "error"
          ELSE IF rest = "error" THEN "error"
          ELSE IF Older(rccTime, f.time) THEN "generate"
          ELSE rest

\* Lines 341-361: the loop over Inputs_: "error" when a resource file does
\* not exist, "generate" at the first one newer than the output (break),
\* "none" when the loop ends.
RECURSIVE ScanResources(_, _, _)
ScanResources(list, files, rccTime) ==
  IF list = << >> THEN "none"
  ELSE LET f == files[Head(list)]
       IN IF ~f.exists THEN "error"
          ELSE IF Older(rccTime, f.time) THEN "generate"
          ELSE ScanResources(Tail(list), files, rccTime)

\* Mutant: the resource files are listed in every run.
ListerNeeded_Always(p) == TRUE

\* Line 331: the list is read from the .qrc file when none was given.
ListerNeeded(p) == Inputs_[p] = << >>

TestResources(p) ==
  /\ pc[p] = "TestResources"
  /\ \E listOk \in BOOLEAN, listed \in ListerOutputs :
       IF ListerNeeded(p) /\ ~listOk
         THEN /\ ReturnFalse(p, "Lister")
              /\ Did(p, "lister", calls[p].lister + 1)
              /\ UNCHANGED <<Inputs_, generate>>
         ELSE LET inputs == IF ListerNeeded(p) THEN listed ELSE Inputs_[p]
                  r == ScanResources(inputs, resFiles, RccFileTime_[p])
              IN /\ Inputs_' = Set(Inputs_, p, inputs)
                 /\ calls' = [calls EXCEPT
                               ![p].lister = IF ListerNeeded(p)
                                               THEN @ + 1 ELSE @,
                               ![p].upToDate = (r = "none")]
                 /\ generate' = Set(generate, p, r = "generate")
                 /\ CASE r = "error" -> ReturnFalse(p, "ResourceMissing")
                      [] r = "generate" -> Goto(p, "GenerateRcc")
                      [] OTHER -> Goto(p, "TestInfoFile")
  /\ UNCHANGED <<clock, pending, fsVars, Options_, SettingsString_, SettingsChanged_,
                 LockFileLock_, QrcFileTime_, RccFileTime_,
                 RccExecutableTime_, BuildFileChanged_>>

\* ----------------------------------------------------------- TestInfoFile
\* Mutant: the output is never touched.
TouchNeeded_Never(p) == FALSE

\* Line 368: the output is older than the info file.
TouchNeeded(p) == Older(RccFileTime_[p], infoFileTime)

\* Mutant: the touch of the output is not remembered.
TouchedBuildFile_Forgotten(p) == BuildFileChanged_

\* Line 380: BuildFileChanged_ after the output was touched.
TouchedBuildFile(p) == Set(BuildFileChanged_, p, TRUE)

\* Lines 365-384: touch the output when it is older than the info file.
TestInfoFile(p) ==
  /\ pc[p] = "TestInfoFile"
  /\ IF TouchNeeded(p)
       THEN \E touchOk \in BOOLEAN :
              IF touchOk /\ rccFile.exists
                THEN /\ rccFile' = [rccFile EXCEPT !.time = clock]
                     /\ BuildFileChanged_' = TouchedBuildFile(p)
                     /\ Did(p, "rccTouched", TRUE)
                     /\ Goto(p, "GenerateWrapper")
                ELSE /\ ReturnFalse(p, "BuildFileTouch")
                     /\ UNCHANGED <<rccFile, BuildFileChanged_, calls>>
       ELSE /\ Goto(p, "GenerateWrapper")
            /\ UNCHANGED <<rccFile, BuildFileChanged_, calls>>
  /\ UNCHANGED <<clock, pending, settingsFile, lockFile, qrcFile, rccExeTime,
                 infoFileTime, resFiles, wrapperFile, MultiConfig_, Options_,
                 Inputs_, SettingsString_, SettingsChanged_, LockFileLock_,
                 QrcFileTime_, RccFileTime_, RccExecutableTime_, generate>>

\* ------------------------------------------------------------ GenerateRcc
\* Mutant: the output of a failed rcc process is not removed.
RccAfterFailure_Keep(old) == old

\* Line 428: what is left at RccFileOutput_ after a failed rcc process.
RccAfterFailure(old) == NoRcc

\* Lines 386-440: make the parent directory, run rcc, remove the output when
\* rcc failed to start or exited non-zero.
GenerateRcc(p) ==
  /\ pc[p] = "GenerateRcc"
  /\ \E mkdirOk \in BOOLEAN, rccOk \in BOOLEAN, partial \in BOOLEAN :
       IF ~mkdirOk
         THEN /\ ReturnFalse(p, "ParentDirectory")
              /\ UNCHANGED <<rccFile, BuildFileChanged_, calls>>
         ELSE /\ Did(p, "rcc", calls[p].rcc + 1)
              /\ IF ~rccOk
                   THEN \* the failed process may have left a partial file
                        LET left == IF partial
                                      THEN [exists |-> TRUE, time |-> clock,
                                            content |-> "partial"]
                                      ELSE rccFile
                        IN /\ rccFile' = RccAfterFailure(left)
                           /\ ReturnFalse(p, "RccProcess")
                           /\ UNCHANGED BuildFileChanged_
                   ELSE /\ rccFile' = [exists |-> TRUE, time |-> clock,
                                       content |-> Options_[p]]
                        /\ BuildFileChanged_' = Set(BuildFileChanged_, p, TRUE)
                        /\ Goto(p, "GenerateWrapper")
  /\ UNCHANGED <<clock, pending, settingsFile, lockFile, qrcFile, rccExeTime,
                 infoFileTime, resFiles, wrapperFile, MultiConfig_, Options_,
                 Inputs_, SettingsString_, SettingsChanged_, LockFileLock_,
                 QrcFileTime_, RccFileTime_, RccExecutableTime_, generate>>

\* -------------------------------------------------------- GenerateWrapper
\* Mutant: the wrapper is written in every run.
fileDiffers_Always(file, readOk) == TRUE

\* Lines 453-459: fileDiffers, true unless the wrapper could be read and
\* holds the content already.
fileDiffers(file, readOk) ==
  IF file.exists /\ readOk THEN file.content # WrapperContent ELSE TRUE

\* Lines 442-484: in multi-config mode write the wrapper when it differs or
\* cannot be read, touch it when the build file changed in this run.
GenerateWrapper(p) ==
  /\ pc[p] = "GenerateWrapper"
  /\ IF MultiConfig_
       THEN \E readOk \in BOOLEAN, ioOk \in BOOLEAN :
              LET readable == wrapperFile.exists /\ readOk
                  step == IF fileDiffers(wrapperFile, readOk) THEN "write"
                          ELSE IF BuildFileChanged_[p] THEN "touch"
                          ELSE "keep"
              IN /\ calls' = [calls EXCEPT ![p].wrapper = step,
                                           ![p].wrapperRead = readable]
                 /\ CASE step = "write" ->
                          IF ioOk
                            THEN /\ wrapperFile' =
                                      [exists |-> TRUE, time |-> clock,
                                       content |-> WrapperContent]
                                 /\ Goto(p, "SettingsFileWrite")
                            ELSE /\ ReturnFalse(p, "WrapperWrite")
                                 /\ UNCHANGED wrapperFile
                      [] step = "touch" ->
                          IF ioOk
                            THEN /\ wrapperFile' =
                                      [wrapperFile EXCEPT !.time = clock]
                                 /\ Goto(p, "SettingsFileWrite")
                            ELSE /\ ReturnFalse(p, "WrapperTouch")
                                 /\ UNCHANGED wrapperFile
                      [] OTHER ->
                          /\ Goto(p, "SettingsFileWrite")
                          /\ UNCHANGED wrapperFile
       ELSE /\ Goto(p, "SettingsFileWrite")
            /\ UNCHANGED <<wrapperFile, calls>>
  /\ UNCHANGED <<clock, pending, settingsFile, lockFile, qrcFile, rccFile, rccExeTime,
                 infoFileTime, resFiles, MultiConfig_, Options_, Inputs_,
                 SettingsString_, SettingsChanged_, LockFileLock_,
                 QrcFileTime_, RccFileTime_, RccExecutableTime_,
                 BuildFileChanged_, generate>>

\* ------------------------------------------------------ SettingsFileWrite
\* Mutant: the settings file is not removed after a failed write.
SettingsAfterWriteFailure_Keep(old) == old

\* Line 260: what is left of the settings file after a failed write.
SettingsAfterWriteFailure(old) == [exists |-> FALSE, content |-> << >>]

\* Lines 246-268: write the record when a setting changed; release the lock
\* and return true, or remove the settings file and return false.
SettingsFileWrite(p) ==
  /\ pc[p] = "SettingsFileWrite"
  /\ \E writeOk \in BOOLEAN, partial \in BOOLEAN :
       IF MustWriteSettings(p) /\ ~writeOk
         THEN \* the failed write may have left a partial file
              LET left == IF partial
                            THEN [exists |-> TRUE, content |-> << >>]
                            ELSE settingsFile
              IN /\ settingsFile' = SettingsAfterWriteFailure(left)
                 /\ pending' = Remember(p, "writeFailed")
                 /\ ReturnFalse(p, "SettingsWrite")
                 /\ UNCHANGED <<LockFileLock_, calls>>
         ELSE /\ IF MustWriteSettings(p)
                   THEN /\ settingsFile' =
                             [exists |-> TRUE,
                              content |-> SettingsRecord(SettingsString_[p])]
                        /\ Did(p, "settingsWritten", TRUE)
                   ELSE UNCHANGED <<settingsFile, calls>>
              /\ pending' = Remember(p, "succeeded")
              /\ LockFileLock_' = ReleasedLock(p)
              /\ pc' = Set(pc, p, "returned")
              /\ result' = Set(result, p, "true")
              /\ UNCHANGED Error
  /\ UNCHANGED <<clock, lockFile, qrcFile, rccFile, rccExeTime, infoFileTime,
                 resFiles, wrapperFile, MultiConfig_, Options_, Inputs_,
                 SettingsString_, SettingsChanged_, QrcFileTime_,
                 RccFileTime_, RccExecutableTime_, BuildFileChanged_,
                 generate>>

\* ---------------------------------------------------------------- Process
\* Lines 137-168: the steps of one run in the order Process() calls them;
\* the branches of Process() are the targets the steps move pc to.
Process(p) ==
  \/ SettingsFileRead_Create(p)
  \/ SettingsFileRead_Lock(p)
  \/ SettingsFileRead_Compare(p)
  \/ TestQrcRccFiles(p)
  \/ TestResources(p)
  \/ GenerateRcc(p)
  \/ TestInfoFile(p)
  \/ GenerateWrapper(p)
  \/ SettingsFileWrite(p)

\* Mutant: the lock outlives the job object that took it.
ResetJob_KeepLock(p) ==
  /\ pc' = Set(pc, p, "idle")
  /\ Options_' = Set(Options_, p, "none")
  /\ Inputs_' = Set(Inputs_, p, << >>)
  /\ SettingsString_' = Set(SettingsString_, p, << >>)
  /\ SettingsChanged_' = Set(SettingsChanged_, p, FALSE)
  /\ QrcFileTime_' = Set(QrcFileTime_, p, 0)
  /\ RccFileTime_' = Set(RccFileTime_, p, 0)
  /\ RccExecutableTime_' = Set(RccExecutableTime_, p, 0)
  /\ BuildFileChanged_' = Set(BuildFileChanged_, p, FALSE)
  /\ generate' = Set(generate, p, FALSE)
  /\ result' = Set(result, p, "none")
  /\ Error' = Set(Error, p, "none")
  /\ calls' = Set(calls, p, NoCalls)
  /\ UNCHANGED <<clock, pending, fsVars, LockFileLock_>>

\* The job object goes away: its members are gone, and the cmFileLock
\* member releases the lock it still holds.
ResetJob(p) ==
  /\ pc' = Set(pc, p, "idle")
  /\ Options_' = Set(Options_, p, "none")
  /\ Inputs_' = Set(Inputs_, p, << >>)
  /\ SettingsString_' = Set(SettingsString_, p, << >>)
  /\ SettingsChanged_' = Set(SettingsChanged_, p, FALSE)
  /\ LockFileLock_' = Set(LockFileLock_, p, FALSE)
  /\ QrcFileTime_' = Set(QrcFileTime_, p, 0)
  /\ RccFileTime_' = Set(RccFileTime_, p, 0)
  /\ RccExecutableTime_' = Set(RccExecutableTime_, p, 0)
  /\ BuildFileChanged_' = Set(BuildFileChanged_, p, FALSE)
  /\ generate' = Set(generate, p, FALSE)
  /\ result' = Set(result, p, "none")
  /\ Error' = Set(Error, p, "none")
  /\ calls' = Set(calls, p, NoCalls)
  /\ UNCHANGED <<clock, pending, fsVars>>

\* After Process() returned the job object is destroyed.
Destroy(p) ==
  /\ pc[p] = "returned"
  /\ ResetJob(p)

\* The build is aborted in the middle of a run (comment at lines 227-229):
\* the process is gone and the operating system drops its lock.
Abort(p) ==
  /\ pc[p] \notin {"idle", "returned"}
  /\ ResetJob(p)

\* Time passes between runs.
Tick ==
  /\ clock < MaxTime
  /\ \A p \in Procs : pc[p] = "idle"
  /\ clock' = clock + 1
  /\ UNCHANGED <<fsVars, pc, jobVars, pending>>

\* ------------------------------------------------------------------- Init
InitJobs ==
  /\ pc = [p \in Procs |-> "idle"]
  /\ Options_ = [p \in Procs |-> "none"]
  /\ Inputs_ = [p \in Procs |-> << >>]
  /\ SettingsString_ = [p \in Procs |-> << >>]
  /\ SettingsChanged_ = [p \in Procs |-> FALSE]
  /\ LockFileLock_ = [p \in Procs |-> FALSE]
  /\ QrcFileTime_ = [p \in Procs |-> 0]
  /\ RccFileTime_ = [p \in Procs |-> 0]
  /\ RccExecutableTime_ = [p \in Procs |-> 0]
  /\ BuildFileChanged_ = [p \in Procs |-> FALSE]
  /\ generate = [p \in Procs |-> FALSE]
  /\ result = [p \in Procs |-> "none"]
  /\ Error = [p \in Procs |-> "none"]
  /\ calls = [p \in Procs |-> NoCalls]

\* Files found in a build tree: all modification times lie in the past.
PastFiles(now) == {NoFile} \cup {File(t) : t \in 0..now}

\* Settings files found in a build tree: absent, empty, the record of an
\* earlier run, or a file without an "rcc" line.  The output found in the
\* tree was generated with the options "o1".
SettingsFiles ==
  {[exists |-> FALSE, content |-> << >>], [exists |-> TRUE, content |-> << >>],
   [exists |-> TRUE, content |-> << SettingsLine("moc", <<"o1">>) >>]}
  \cup {[exists |-> TRUE, content |-> SettingsRecord(HashString("o1", i))] :
          i \in SuppliedInputs}

\* A build tree before a run: either fresh (no lock file, no settings file)
\* or used before.
InitFiles ==
  /\ clock \in 0..1
  /\ settingsFile \in SettingsFiles
  /\ lockFile \in BOOLEAN
  /\ ~lockFile => ~settingsFile.exists
  /\ qrcFile \in PastFiles(clock)
  /\ rccFile \in {NoRcc} \cup {[exists |-> TRUE, time |-> t, content |-> "o1"] :
                                  t \in 0..clock}
  /\ rccExeTime \in 0..clock
  /\ infoFileTime \in 0..clock
  /\ resFiles \in [ResNames -> PastFiles(clock)]
  /\ MultiConfig_ \in BOOLEAN
  /\ wrapperFile \in
       IF MultiConfig_
         THEN {NoWrapper,
               [exists |-> TRUE, time |-> 0, content |-> WrapperContent],
               [exists |-> TRUE, time |-> 0, content |-> "other"]}
         ELSE {NoWrapper}

Init == InitFiles /\ InitJobs /\ pending = NoHistory

\* Runs of the job one after the other on one build tree.
Next ==
  \/ \E p \in SeqProcs :
       \/ \E o \in OptionSet, i \in SuppliedInputs : InitJob(p, o, i)
       \/ Process(p)
       \/ Destroy(p)
       \/ Abort(p)
  \/ Tick

Spec == Init /\ [][Next]_vars

\* --------------------------------------------------- concurrent invocations
\* A build tree on which several invocations of the job race: fresh, or left
\* by an earlier run with the options "o1".  All input files are present.
InitConcFiles ==
  /\ clock = 1
  /\ \/ /\ settingsFile = [exists |-> FALSE, content |-> << >>]
        /\ lockFile = FALSE
        /\ rccFile = NoRcc
     \/ /\ settingsFile =
             [exists |-> TRUE,
              content |-> SettingsRecord(HashString("o1", <<"r1", "r2">>))]
        /\ lockFile = TRUE
        /\ rccFile = [exists |-> TRUE, time |-> 0, content |-> "o1"]
  /\ qrcFile = File(0)
  /\ rccExeTime = 0
  /\ infoFileTime = 1
  /\ resFiles = [r \in ResNames |-> File(0)]
  /\ MultiConfig_ = TRUE
  /\ wrapperFile = NoWrapper

InitConc == InitConcFiles /\ InitJobs /\ pending = NoHistory

\* The racing invocations belong to one build: the dependent inputs are
\* given, the options are those of the build; the first invocation may also
\* be one of a reconfigured build.
NextConc ==
  \E p \in Procs :
    \/ \E o \in OptionSet :
         /\ o = "o1" \/ p \in SeqProcs
         /\ InitJob(p, o, <<"r1", "r2">>)
    \/ Process(p)
    \/ Destroy(p)
    \/ Abort(p)

SpecConc == InitConc /\ [][NextConc]_vars

\* ------------------------------------------------- fair concurrent runs
\* LockFileLock_.Lock() returns with the lock.
LockAcquired(p) == SettingsFileRead_Lock(p) /\ LockFileLock_'[p]

\* A step of a run that does not wait for another invocation.
RunStep(p) == Process(p) /\ pc[p] # "Lock"

\* Every invocation keeps running, a returned job object is destroyed, and
\* the blocking lock is granted to an invocation that finds it free again
\* and again.
Fairness ==
  \A p \in Procs :
    /\ WF_vars(RunStep(p))
    /\ WF_vars(Destroy(p))
    /\ SF_vars(LockAcquired(p))

\* The invocations of one single-config build race on a build tree left by
\* an earlier run.
InitFairFiles ==
  /\ clock = 1
  /\ settingsFile =
       [exists |-> TRUE,
        content |-> SettingsRecord(HashString("o1", <<"r1", "r2">>))]
  /\ lockFile = TRUE
  /\ rccFile = [exists |-> TRUE, time |-> 0, content |-> "o1"]
  /\ qrcFile = File(0)
  /\ rccExeTime = 0
  /\ infoFileTime = 0
  /\ resFiles = [r \in ResNames |-> File(0)]
  /\ MultiConfig_ = FALSE
  /\ wrapperFile = NoWrapper

InitFair == InitFairFiles /\ InitJobs /\ pending = NoHistory

NextFair ==
  \E p \in Procs :
    \/ InitJob(p, "o1", <<"r1", "r2">>)
    \/ Process(p)
    \/ Destroy(p)
    \/ Abort(p)

SpecFair == InitFair /\ [][NextFair]_vars /\ Fairness

\* ---------------------------------------------------- runs after a failure
\* Runs one after the other, with the history of the last run.  The input
\* files are old; one of the dependent inputs may be missing.
InitRerun ==
  /\ InitFiles
  /\ qrcFile = File(0)
  /\ rccExeTime = 0
  /\ infoFileTime = 0
  /\ resFiles \in {[r \in ResNames |-> File(0)],
                   [r \in ResNames |-> IF r = "r1" THEN NoFile ELSE File(0)]}
  /\ InitJobs
  /\ pending = NoPending

SpecRerun == InitRerun /\ [][Next]_vars

\* ================================================================== claims
\* Positions of Process() between the read of the old settings and the
\* write-back.
LockedSection ==
  {"ReadOld", "TestQrcRccFiles", "TestResources", "GenerateRcc",
   "TestInfoFile", "GenerateWrapper", "SettingsFileWrite"}

\* The file holds the record of digest d.
HoldsDigest(file, d) ==
  file.exists /\ SettingsFind(file.content, "rcc") = d

\* C1 as stated: every return of a run that acquired the lock, successful or
\* failing, has released the lock before the run returns.
C1_LockReleasedOnEveryReturn ==
  \A p \in Procs :
    (pc[p] = "returned" /\ calls[p].locked) => ~LockFileLock_[p]

\* C1 amended: a run that acquired the lock has released it when it returns
\* exactly when it returns true; after each failing return (settings clear,
\* missing .qrc file, lister, missing resource file, parent directory, rcc
\* process, build file touch, wrapper write or touch, settings write) the
\* lock member still holds the lock.
C1_LockReleasedOnlyOnSuccess ==
  \A p \in Procs :
    (pc[p] = "returned" /\ calls[p].locked) =>
      /\ LockFileLock_[p] <=> (result[p] = "false")
      /\ result[p] = "false" =>
           Error[p] \in {"SettingsClear", "QrcMissing", "Lister",
                         "ResourceMissing", "ParentDirectory", "RccProcess",
                         "BuildFileTouch", "WrapperWrite", "WrapperTouch",
                         "SettingsWrite"}

\* A run returned false after a failed rcc process and still holds the lock.
C1_Witness ==
  \E p \in Procs :
    /\ pc[p] = "returned" /\ calls[p].locked
    /\ Error[p] = "RccProcess" /\ LockFileLock_[p]

\* C2 as stated: every step that changes the settings file (creation,
\* truncation, rewrite, deletion) is a step of the invocation holding the lock.
C2_EveryAccessUnderLock ==
  [][settingsFile' # settingsFile =>
       \E p \in Procs : LockFileLock_[p] /\ pc'[p] # pc[p]]_vars

\* C2 amended: the lock is exclusive and an invocation holds it at every
\* position from the read of the old settings to the write-back; the read,
\* the truncation, the rewrite and the deletion of the settings file are
\* steps of the lock holder; only the existence check and the creation of a
\* missing (empty) settings file happen before the lock is taken.
C2_SettingsUnderLockAfterCreation ==
  /\ [](\A p \in Procs : pc[p] \in LockedSection => LockFileLock_[p])
  /\ [](\A p, q \in Procs : LockFileLock_[p] /\ LockFileLock_[q] => p = q)
  /\ [][settingsFile' # settingsFile =>
          \/ \E p \in Procs :
               /\ LockFileLock_[p]
               /\ pc[p] \in {"ReadOld", "SettingsFileWrite"}
               /\ pc'[p] # pc[p]
          \/ \E p \in Procs :
               /\ pc[p] = "SettingsFileRead" /\ pc'[p] # pc[p]
               /\ ~settingsFile.exists
               /\ settingsFile' = [exists |-> TRUE, content |-> << >>]]_vars

\* One invocation is about to write the settings back while another one
\* waits for the lock.
C2_Witness ==
  \E p, q \in Procs :
    /\ p # q
    /\ pc[p] = "SettingsFileWrite" /\ SettingsChanged_[p] /\ LockFileLock_[p]
    /\ pc[q] = "Lock"

\* C3: a run that saw a stored digest different from its own has emptied the
\* settings file before the staleness tests, the generator and the wrapper
\* step; and a run whose digest is that of the last run that cleared the
\* file and did not write it back computes SettingsChanged_ = true.
C3_ClearedBeforeTests ==
  \A p \in Procs :
    /\ (calls[p].mismatch /\ pc[p] \in LockedSection \ {"ReadOld"}) =>
         (settingsFile.exists /\ settingsFile.content = << >>)
    /\ (calls[p].expect = "cleared" /\ pc[p] \in LockedSection \ {"ReadOld"}) =>
         SettingsChanged_[p]

\* A run follows a run of the same configuration that cleared the settings
\* file and failed or was aborted before the write-back.
C3_Witness ==
  \E p \in Procs :
    /\ calls[p].expect = "cleared"
    /\ pc[p] = "TestQrcRccFiles" /\ SettingsChanged_[p]

\* The decision of TestQrcRccFiles followed by TestResources, once made.
DecisionMade(p) ==
  \/ pc[p] \in {"GenerateRcc", "TestInfoFile"}
  \/ pc[p] = "returned" /\ Error[p] \in {"QrcMissing", "ResourceMissing"}

CodeDecision(p) ==
  IF pc[p] = "returned" THEN "Error"
  ELSE IF pc[p] = "GenerateRcc" THEN "Rebuild"
  ELSE "UpToDate"

\* The first dependent input, in order, that is absent or newer than the
\* output; 0 when there is none.
FirstHit(p) ==
  LET hits == {i \in 1..Len(Inputs_[p]) :
                 \/ ~resFiles[Inputs_[p][i]].exists
                 \/ rccFile.time < resFiles[Inputs_[p][i]].time}
  IN IF hits = {} THEN 0
     ELSE CHOOSE i \in hits : \A j \in hits : i <= j

\* The ordered rules of the staleness evaluation.
Rules(p) ==
  << [when |-> ~qrcFile.exists, then |-> "Error"],
     [when |-> ~rccFile.exists, then |-> "Rebuild"],
     [when |-> SettingsChanged_[p], then |-> "Rebuild"],
     [when |-> rccFile.time < qrcFile.time, then |-> "Rebuild"],
     [when |-> rccFile.time < RccExecutableTime_[p], then |-> "Rebuild"],
     [when |-> FirstHit(p) # 0 /\ ~resFiles[Inputs_[p][FirstHit(p)]].exists,
      then |-> "Error"],
     [when |-> FirstHit(p) # 0, then |-> "Rebuild"],
     [when |-> TRUE, then |-> "UpToDate"] >>

FirstMatch(rules) ==
  rules[CHOOSE i \in 1..Len(rules) :
          rules[i].when /\ \A j \in 1..(i - 1) : ~rules[j].when].then

\* C4: the decision of TestQrcRccFiles followed by TestResources is the one
\* of the first matching rule of the ordered list (with the dependent inputs
\* as given or as listed).
C4_DecisionIsFirstMatchingRule ==
  \A p \in Procs : DecisionMade(p) => CodeDecision(p) = FirstMatch(Rules(p))

\* The scan stopped at a newer dependent input although a later one is
\* absent: the decision is Rebuild.
C4_Witness ==
  \E p \in Procs :
    /\ pc[p] = "GenerateRcc" /\ calls[p].lister = 1
    /\ Inputs_[p] = <<"r2", "r1">>
    /\ ~resFiles["r1"].exists

\* C5: a run that found a stored digest different from its own never takes
\* the up-to-date path: once past the staleness test it has the decision
\* Rebuild, and it gets past GenerateRcc only by invoking the generator,
\* whatever the time stamps are.  Only a failed settings clear, a missing
\* .qrc file or a failed parent directory end it before the generator runs.
C5_ChangedSettingsRebuild ==
  \A p \in Procs :
    calls[p].mismatch =>
      /\ pc[p] \notin {"TestResources", "TestInfoFile"}
      /\ pc[p] = "GenerateRcc" => generate[p]
      /\ pc[p] \in {"GenerateWrapper", "SettingsFileWrite"} => calls[p].rcc = 1
      /\ pc[p] = "returned" =>
           \/ calls[p].rcc = 1
           \/ Error[p] \in {"SettingsClear", "QrcMissing", "ParentDirectory"}

\* The settings changed, every time stamp says up to date, and the generator
\* ran.
C5_Witness ==
  \E p \in Procs :
    /\ calls[p].mismatch /\ pc[p] = "GenerateWrapper" /\ calls[p].rcc = 1
    /\ calls[p].rccAtLoad.exists
    /\ ~(calls[p].rccAtLoad.time < qrcFile.time)
    /\ ~(calls[p].rccAtLoad.time < RccExecutableTime_[p])
    /\ \A r \in ResNames :
         resFiles[r].exists /\ ~(calls[p].rccAtLoad.time < resFiles[r].time)

\* The output is at least as new as every resolved dependent input.
NotOlderThanInputs(p) ==
  \A i \in 1..Len(Inputs_[p]) :
    /\ resFiles[Inputs_[p][i]].exists
    /\ ~(rccFile.time < resFiles[Inputs_[p][i]].time)

\* C6: with the output present and the settings unchanged, a .qrc file
\* strictly newer than the output gives Rebuild, and an output whose time
\* equals or exceeds that of the .qrc file, the rcc executable and every
\* dependent input gives UpToDate: a tie never triggers a rebuild.
C6_OnlyStrictlyOlderRebuilds ==
  \A p \in Procs :
    (DecisionMade(p) /\ qrcFile.exists /\ rccFile.exists
       /\ ~SettingsChanged_[p]) =>
      /\ rccFile.time < qrcFile.time => CodeDecision(p) = "Rebuild"
      /\ ( /\ ~(rccFile.time < qrcFile.time)
           /\ ~(rccFile.time < RccExecutableTime_[p])
           /\ NotOlderThanInputs(p) ) => CodeDecision(p) = "UpToDate"

\* All time stamps are equal and the decision is UpToDate.
C6_Witness ==
  \E p \in Procs :
    /\ pc[p] = "TestInfoFile" /\ ~SettingsChanged_[p]
    /\ rccFile.time = 1 /\ qrcFile.time = 1 /\ RccExecutableTime_[p] = 1
    /\ Inputs_[p] = <<"r1", "r2">>
    /\ \A r \in ResNames : resFiles[r] = File(1)

\* C7: after a failed rcc process the run has returned false, no file is at
\* the output path, and rcc ran once in this run; no run invokes rcc twice.
C7_FailedGeneratorLeavesNoOutput ==
  \A p \in Procs :
    /\ calls[p].rcc <= 1
    /\ (pc[p] = "returned" /\ Error[p] = "RccProcess") =>
         /\ result[p] = "false"
         /\ ~rccFile.exists
         /\ calls[p].rcc = 1

\* The rcc process failed in a run that found an output file in place.
C7_Witness ==
  \E p \in Procs :
    /\ pc[p] = "returned" /\ Error[p] = "RccProcess"
    /\ calls[p].rccAtLoad.exists /\ ~rccFile.exists

\* C8 as stated: a run with unchanged settings that decided UpToDate did not
\* invoke the generator, did not rewrite the settings file and left the
\* output as it was, content and modification time.
C8_UpToDateLeavesOutputUntouched ==
  \A p \in Procs :
    calls[p].upToDate =>
      /\ calls[p].rcc = 0
      /\ ~calls[p].settingsWritten
      /\ rccFile = calls[p].rccAtLoad

\* C8 amended: such a run does not invoke the generator, does not rewrite
\* the settings file and does not change the content of the output; the
\* modification time of the output is unchanged unless the output is
\* strictly older than the info file, and then TestInfoFile touches it.
C8_UpToDateTouchesOnlyWhenOlderThanInfo ==
  \A p \in Procs :
    calls[p].upToDate =>
      /\ ~SettingsChanged_[p] /\ ~generate[p]
      /\ calls[p].rcc = 0
      /\ ~calls[p].settingsWritten
      /\ HoldsDigest(settingsFile, SettingsString_[p])
      /\ rccFile.exists
      /\ rccFile.content = calls[p].rccAtLoad.content
      /\ calls[p].rccTouched =
           ( /\ pc[p] # "TestInfoFile"
             /\ Error[p] # "BuildFileTouch"
             /\ Older(calls[p].rccAtLoad.time, infoFileTime) )
      /\ rccFile.time = IF calls[p].rccTouched THEN clock
                        ELSE calls[p].rccAtLoad.time

\* An up-to-date run returned true after touching an output that was older
\* than the info file.
C8_Witness ==
  \E p \in Procs :
    /\ calls[p].upToDate /\ result[p] = "true"
    /\ calls[p].rccTouched /\ rccFile.time # calls[p].rccAtLoad.time

\* C9: a step after which the settings file holds a digest it did not hold
\* before is the successful end of SettingsFileWrite of a run with that
\* digest, which went through the staleness tests, the generator and the
\* wrapper step without an error; and a run that wrote the record changes no
\* file afterwards.
C9_RecordWrittenOnlyAtTheEnd ==
  [][ /\ \A d \in Digests :
           (HoldsDigest(settingsFile', d) /\ ~HoldsDigest(settingsFile, d)) =>
             \E p \in Procs :
               /\ pc[p] = "SettingsFileWrite" /\ pc'[p] = "returned"
               /\ result'[p] = "true" /\ Error'[p] = "none"
               /\ SettingsString_[p] = d /\ SettingsChanged_[p]
               /\ calls[p].rcc = 1 /\ BuildFileChanged_[p]
      /\ (\E p \in Procs : calls[p].settingsWritten) => UNCHANGED fsVars
    ]_vars

\* A run wrote the record of its digest and returned true.
C9_Witness ==
  \E p \in Procs :
    /\ calls[p].settingsWritten /\ result[p] = "true"
    /\ HoldsDigest(settingsFile, SettingsString_[p])

\* C10: when the settings changed and the final write failed, the run has
\* returned false and the settings file is gone; and the next run with the
\* digest of the run whose write failed computes SettingsChanged_ = true.
C10_FailedWriteRemovesSettings ==
  \A p \in Procs :
    /\ (pc[p] = "returned" /\ Error[p] = "SettingsWrite") =>
         /\ result[p] = "false"
         /\ SettingsChanged_[p]
         /\ ~settingsFile.exists
    /\ (calls[p].expect = "writeFailed" /\ pc[p] \in LockedSection \ {"ReadOld"}) =>
         SettingsChanged_[p]

\* A run follows a run of the same configuration whose settings write
\* failed, and has read the settings file.
C10_Witness ==
  \E p \in Procs :
    /\ calls[p].expect = "writeFailed"
    /\ calls[p].mismatch /\ pc[p] = "TestQrcRccFiles"

\* C11: in multi-config mode GenerateWrapper writes the wrapper exactly when
\* it cannot be read or its content differs; a readable wrapper with the same
\* content keeps its content and gets the current time when the output was
\* generated in this run, and is left as it is when the output was neither
\* generated nor touched in this run.
C11_WrapperWrittenOnlyWhenItDiffers ==
  [][\A p \in Procs :
       (/\ MultiConfig_
        /\ pc[p] = "GenerateWrapper"
        /\ pc'[p] \in {"SettingsFileWrite", "returned"}) =>
         LET same == /\ calls'[p].wrapperRead
                     /\ wrapperFile.exists
                     /\ wrapperFile.content = WrapperContent
             done == Error'[p] = "none"
         IN /\ (calls'[p].wrapper = "write") <=> ~same
            /\ (~same /\ done) =>
                 wrapperFile' = [exists |-> TRUE, time |-> clock,
                                 content |-> WrapperContent]
            /\ (same /\ calls[p].rcc = 1) =>
                 /\ calls'[p].wrapper = "touch"
                 /\ done => /\ wrapperFile'.content = wrapperFile.content
                            /\ wrapperFile'.exists
                            /\ wrapperFile'.time = clock
                            /\ wrapperFile'.time >= wrapperFile.time
            /\ (same /\ calls[p].rcc = 0 /\ ~calls[p].rccTouched) =>
                 /\ calls'[p].wrapper = "keep"
                 /\ done
                 /\ wrapperFile' = wrapperFile
            /\ ~done => wrapperFile' = wrapperFile
    ]_vars

\* A readable wrapper with the same content was touched after the output
\* was generated, at a later time than the one it had.
C11_Witness ==
  \E p \in Procs :
    /\ MultiConfig_ /\ pc[p] = "SettingsFileWrite"
    /\ calls[p].wrapper = "touch" /\ calls[p].wrapperRead
    /\ calls[p].rcc = 1
    /\ wrapperFile.content = WrapperContent /\ wrapperFile.time = 1

\* C12: the lister runs at most once in a run, and only in a run that was
\* given no list of dependent inputs, found the output, found the settings
\* unchanged and found the output older neither than the .qrc file nor than
\* the rcc executable; a run whose settings changed never runs the lister.
C12_ListerOnlyWhenNeeded ==
  \A p \in Procs :
    /\ calls[p].lister <= 1
    /\ calls[p].lister = 1 =>
         /\ calls[p].supplied = << >>
         /\ calls[p].rccAtLoad.exists
         /\ ~SettingsChanged_[p]
         /\ ~Older(calls[p].rccAtLoad.time, qrcFile.time)
         /\ ~Older(calls[p].rccAtLoad.time, RccExecutableTime_[p])
         /\ pc[p] \notin {"SettingsFileRead", "Lock", "ReadOld",
                          "TestQrcRccFiles", "TestResources"}
    /\ SettingsChanged_[p] => calls[p].lister = 0

\* The lister ran and reported dependent inputs.
C12_Witness ==
  \E p \in Procs :
    /\ calls[p].lister = 1 /\ Error[p] = "none"
    /\ Inputs_[p] # << >> /\ calls[p].supplied = << >>

\* C13: a run that found the output up to date and strictly older than the
\* info file has, once past the touch, given the output a later time, the
\* current one, without running rcc and without changing the content; a run
\* that decided to generate never touches the output.
C13_UpToDateOutputOlderThanInfoIsTouched ==
  \A p \in Procs :
    /\ (/\ calls[p].upToDate
        /\ Older(calls[p].rccAtLoad.time, infoFileTime)
        /\ \/ pc[p] \in {"GenerateWrapper", "SettingsFileWrite"}
           \/ pc[p] = "returned" /\ Error[p] # "BuildFileTouch") =>
         /\ calls[p].rccTouched
         /\ calls[p].rcc = 0
         /\ rccFile.exists
         /\ rccFile.time = clock
         /\ rccFile.time > calls[p].rccAtLoad.time
         /\ rccFile.content = calls[p].rccAtLoad.content
    /\ (generate[p] \/ calls[p].rcc > 0) => ~calls[p].rccTouched

\* An up-to-date output older than the info file was touched.
C13_Witness ==
  \E p \in Procs :
    /\ calls[p].upToDate /\ calls[p].rccTouched
    /\ Older(calls[p].rccAtLoad.time, infoFileTime)
    /\ rccFile.time > calls[p].rccAtLoad.time
    /\ result[p] = "true"

\* C14: under fair scheduling an invocation that waits for the lock gets it,
\* unless the lock call itself reports an error or the invocation is
\* aborted, and an invocation that holds the lock comes to the end of its
\* run; this also holds when an earlier holder returned with an error.
C14_WaiterGetsLockAndTerminates ==
  \A p \in SeqProcs :
    /\ (pc[p] = "Lock") ~>
         (LockFileLock_[p] \/ Error[p] = "Lock" \/ pc[p] = "idle")
    /\ (pc[p] \in LockedSection) ~> (pc[p] \in {"returned", "idle"})

\* An invocation waits for the lock while the holder has returned with an
\* error and still holds the lock.
C14_Witness ==
  \E p, q \in Procs :
    /\ pc[p] = "Lock"
    /\ pc[q] = "returned" /\ result[q] = "false" /\ LockFileLock_[q]

\* C15: the comparison in SettingsFileRead yields SettingsChanged_ = false
\* exactly when the settings file could be read and the digest stored under
\* the key "rcc" equals the digest of this run; an absent, unreadable or
\* empty file and a file without a matching record yield SettingsChanged_ =
\* true, and the only error of the step is a failed clearing of a file that
\* was read and did not match.
C15_ChangedUnlessStoredDigestEqual ==
  [][\A p \in Procs :
       (pc[p] = "ReadOld" /\ pc'[p] \in {"TestQrcRccFiles", "returned"}) =>
         LET read == calls'[p].settingsRead
             equal == HoldsDigest(settingsFile, SettingsString_[p])
         IN /\ read => settingsFile.exists
            /\ SettingsChanged_'[p] = ~(read /\ equal)
            /\ (\/ ~settingsFile.exists
                \/ ~read
                \/ settingsFile.content = << >>
                \/ SettingsFind(settingsFile.content, "rcc") = << >>) =>
                 SettingsChanged_'[p]
            /\ (~read \/ equal) =>
                 /\ pc'[p] = "TestQrcRccFiles"
                 /\ Error'[p] = "none"
                 /\ settingsFile' = settingsFile
            /\ pc'[p] = "returned" => Error'[p] = "SettingsClear"
    ]_vars

\* The comparison found no settings file, another invocation had removed
\* it, and went on with SettingsChanged_ = true.
C15_Witness ==
  \E p \in Procs :
    /\ pc[p] = "TestQrcRccFiles"
    /\ ~settingsFile.exists /\ ~calls[p].settingsRead
    /\ SettingsChanged_[p] /\ Error[p] = "none"

\* C16 as stated: a run that ended because the lock could not be taken left
\* the settings file, the lock file, the output and the wrapper as it found
\* them: it created none of them.
C16_FailedLockLeavesAllFiles ==
  \A p \in Procs :
    (pc[p] = "returned" /\ Error[p] = "Lock") =>
      /\ result[p] = "false"
      /\ ~calls[p].createdSettings
      /\ ~calls[p].createdLock

\* C16 amended: a run that ended because the lock could not be taken has
\* returned false without the lock and without running rcc or the lister;
\* the steps of a run that has not yet taken the lock leave the output and
\* the wrapper alone and change the settings file and the lock file only by
\* creating a missing one (the settings file empty).
C16_FailedLockOnlyCreatesFiles ==
  /\ [](\A p \in Procs :
          (pc[p] = "returned" /\ Error[p] = "Lock") =>
            /\ result[p] = "false"
            /\ ~LockFileLock_[p] /\ ~calls[p].locked
            /\ calls[p].rcc = 0 /\ calls[p].lister = 0
            /\ settingsFile.exists /\ lockFile
            /\ calls[p].createdSettings => settingsFile.content = << >>)
  /\ [][\A p \in Procs :
          (pc[p] \in {"SettingsFileRead", "Lock"} /\ pc'[p] # pc[p]) =>
            /\ rccFile' = rccFile
            /\ wrapperFile' = wrapperFile
            /\ lockFile => lockFile'
            /\ settingsFile.exists => settingsFile' = settingsFile
            /\ settingsFile'.exists => settingsFile'.content = settingsFile.content
            /\ pc[p] = "Lock" => (settingsFile' = settingsFile /\ lockFile' = lockFile)
     ]_vars

\* The lock could not be taken by a run that had created the settings file
\* and the lock file.
C16_Witness ==
  \E p \in Procs :
    /\ pc[p] = "returned" /\ Error[p] = "Lock"
    /\ calls[p].createdSettings /\ calls[p].createdLock
    /\ rccFile.exists

\* C17: rcc is run, the output is removed, written or touched and the wrapper
\* is written or touched only in a step of the invocation that holds the
\* lock, and no two invocations are between the read of the old settings and
\* the write-back at the same time.
C17_BuildAndPublishOnlyByLockHolder ==
  /\ [](\A p, q \in Procs :
          (pc[p] \in LockedSection /\ pc[q] \in LockedSection) => p = q)
  /\ [][\A p \in Procs :
          calls'[p].rcc > calls[p].rcc =>
            LockFileLock_[p] /\ pc[p] = "GenerateRcc"]_vars
  /\ [][(rccFile' # rccFile \/ wrapperFile' # wrapperFile) =>
          \E p \in Procs :
            /\ LockFileLock_[p]
            /\ pc[p] \in {"GenerateRcc", "TestInfoFile", "GenerateWrapper"}
            /\ pc'[p] # pc[p]
            /\ \A q \in Procs \ {p} : ~LockFileLock_[q] /\ pc'[q] = pc[q]]_vars

\* The lock holder has run rcc and written the wrapper while another
\* invocation waits for the lock.
C17_Witness ==
  \E p, q \in Procs :
    /\ p # q
    /\ pc[p] = "SettingsFileWrite" /\ LockFileLock_[p]
    /\ calls[p].rcc = 1 /\ calls[p].wrapper = "write"
    /\ rccFile.exists /\ wrapperFile.exists
    /\ pc[q] = "Lock"

\* C18: the digest of a run is computed from the options and from the list
\* of dependent inputs as it was given at initialisation, empty when none
\* was given; the list read by the lister does not enter it: a run that ran
\* the lister has the digest of the empty list, found it in the settings
\* file and leaves it there, whatever the lister reported.
C18_DigestFromSuppliedInputs ==
  \A p \in Procs :
    /\ pc[p] \notin {"idle", "SettingsFileRead"} =>
         SettingsString_[p] = <<Options_[p]>> \o calls[p].supplied
    /\ calls[p].settingsWritten =>
         settingsFile.content =
           << SettingsLine("rcc", <<Options_[p]>> \o calls[p].supplied) >>
    /\ calls[p].lister = 1 =>
         /\ SettingsString_[p] = <<Options_[p]>>
         /\ ~SettingsChanged_[p]
         /\ settingsFile.exists
         /\ SettingsFind(settingsFile.content, "rcc") = <<Options_[p]>>

\* The lister reported dependent inputs in a run that found its digest, the
\* one of the empty list, in the settings file.
C18_Witness ==
  \E p \in Procs :
    /\ calls[p].lister = 1 /\ result[p] = "true"
    /\ Inputs_[p] = <<"r2", "r1">>
    /\ SettingsFind(settingsFile.content, "rcc") = <<Options_[p]>>

\* A run follows a successful run of the same configuration, and none of its
\* calls failed for a reason of its own: the settings file and the wrapper
\* could be read, the lister reported what it had reported before, and no
\* error other than a missing dependent input ended the run.
FollowsSuccess(p) ==
  /\ calls[p].expect = "succeeded"
  /\ pc[p] \in (LockedSection \ {"ReadOld"}) \cup {"returned"}
  /\ calls[p].settingsRead
  /\ Error[p] \in {"none", "ResourceMissing"}
  /\ (calls[p].lister = 1 /\ calls[p].prevLister = 1) =>
       Inputs_[p] = calls[p].prevInputs
  /\ calls[p].wrapper # "none" => calls[p].wrapperRead

\* The run changed nothing: settings unchanged, up to date, no rcc, no touch
\* of the output, no write of the settings file, wrapper left as it was.
ChangedNothing(p) ==
  /\ ~SettingsChanged_[p] /\ ~calls[p].mismatch
  /\ HoldsDigest(settingsFile, SettingsString_[p])
  /\ ~generate[p] /\ pc[p] # "GenerateRcc" /\ calls[p].rcc = 0
  /\ ~calls[p].rccTouched /\ ~BuildFileChanged_[p]
  /\ ~calls[p].settingsWritten
  /\ calls[p].wrapper \in {"none", "keep"}
  /\ pc[p] = "returned" => result[p] = "true"

\* Every dependent input the run knows of exists.
DependentsExist(p) ==
  \A i \in 1..Len(Inputs_[p]) : resFiles[Inputs_[p][i]].exists

\* C19 as stated: the run that follows a successful run of the same
\* configuration, with no file changed in between, finds the output up to
\* date, runs no rcc, does not touch the output and leaves the settings file
\* and the wrapper as they are.
C19_RunAfterSuccessChangesNothing ==
  \A p \in Procs : FollowsSuccess(p) => ChangedNothing(p)

\* C19 amended: the same, for a following run whose dependent inputs all
\* exist.
C19_RunAfterSuccessWithDependentsChangesNothing ==
  \A p \in Procs :
    (FollowsSuccess(p) /\ DependentsExist(p)) => ChangedNothing(p)

\* A multi-config run followed a successful run of the same configuration,
\* scanned its dependent inputs and returned true.
C19_Witness ==
  \E p \in Procs :
    /\ FollowsSuccess(p) /\ DependentsExist(p)
    /\ pc[p] = "returned" /\ result[p] = "true"
    /\ calls[p].upToDate /\ Inputs_[p] # << >>
    /\ calls[p].wrapper = "keep"

\* C20: BuildFileChanged_ is set exactly in a run in which rcc ran with
\* success or the up-to-date output was touched; in multi-config mode a run
\* that only touched the output never leaves the wrapper as it is: it gives
\* a wrapper with the same content the current time.
C20_BuildFileChangedWhenGeneratedOrTouched ==
  \A p \in Procs :
    /\ BuildFileChanged_[p] <=>
         \/ calls[p].rccTouched
         \/ calls[p].rcc = 1 /\ Error[p] # "RccProcess"
    /\ (calls[p].rcc = 0 /\ ~calls[p].rccTouched) =>
         (~BuildFileChanged_[p] /\ calls[p].wrapper # "touch")
    /\ (calls[p].rccTouched /\ calls[p].wrapper # "none") =>
         /\ calls[p].wrapper \in {"write", "touch"}
         /\ Error[p] = "none" =>
              /\ wrapperFile.exists
              /\ wrapperFile.time = clock
              /\ wrapperFile.content = WrapperContent

\* A run that only touched the output touched the wrapper, which had the
\* same content and an earlier time.
C20_Witness ==
  \E p \in Procs :
    /\ calls[p].rccTouched /\ calls[p].rcc = 0
    /\ calls[p].wrapper = "touch" /\ calls[p].wrapperRead
    /\ pc[p] = "SettingsFileWrite"
    /\ wrapperFile.time = 1

====
